---- MODULE Spec2Model ----
(***************************************************************************)
(* Model of client_capture (src/src/lib.rs): a session controller          *)
(* (ClientCapture) whose background retry loop resolves a window handle,   *)
(* runs a capture adapter (Capture) on it and publishes cropped client     *)
(* area images into a single-slot watch channel read by get_img().         *)
(***************************************************************************)
EXTENDS Integers, Sequences, FiniteSets, TLC

(***************************************************************************)
(* 32-bit machine words.  A u32 / i32 value is kept as its bit pattern,    *)
(* a pair <<hi, lo>> of 16-bit halves, so that the arithmetic of to_img    *)
(* keeps its width.  `as i32` / `as u32` casts keep the bit pattern.       *)
(***************************************************************************)
Half == 65536

W(n) == <<n \div Half, n % Half>>

WNeg(n) == <<(Half - 1) - ((n - 1) \div Half), (Half - 1) - ((n - 1) % Half)>>

WZero == <<0, 0>>

\* wrapping_add on the bit patterns (u32 and i32 alike)
WAdd(a, b) ==
    LET lo == a[2] + b[2]
        hi == a[1] + b[1] + (lo \div Half)
    IN  <<hi % Half, lo % Half>>

\* wrapping_sub on the bit patterns (u32 and i32 alike)
WSub(a, b) ==
    LET lo == (a[2] - b[2]) + Half
        hi == (a[1] - b[1]) + (Half - 1) + (lo \div Half)
    IN  <<hi % Half, lo % Half>>

\* unsigned comparison
ULt(a, b) == a[1] < b[1] \/ (a[1] = b[1] /\ a[2] < b[2])

ULe(a, b) == ~ULt(b, a)

\* the sign bit of the pattern read as i32
Neg(a) == a[1] >= Half \div 2

\* signed comparison
ILt(a, b) ==
    IF Neg(a) /= Neg(b) THEN Neg(a) ELSE ULt(a, b)

\* u32 a + b leaves the 32-bit range
UAddOvf(a, b) == ULt(WAdd(a, b), a)

\* u32 a - b leaves the 32-bit range
USubOvf(a, b) == ULt(a, b)

\* i32 a + b leaves the 32-bit range
IAddOvf(a, b) == Neg(a) = Neg(b) /\ Neg(WAdd(a, b)) /= Neg(a)

\* i32 a - b leaves the 32-bit range
ISubOvf(a, b) == Neg(a) /= Neg(b) /\ Neg(WSub(a, b)) /= Neg(a)

\* the 32-bit product of two 16-bit halves, as <<hi, lo>>
Mul16(x, y) ==
    LET p1 == (x \div 256) * y
        p0 == (x % 256) * y
        lo == (p1 % 256) * 256 + p0
    IN  <<(p1 \div 256) + (lo \div Half), lo % Half>>

\* the 64-bit product of two u32 values, as four 16-bit limbs, highest first
Mul32(a, b) ==
    LET ll == Mul16(a[2], b[2])
        hl == Mul16(a[1], b[2])
        lh == Mul16(a[2], b[1])
        hh == Mul16(a[1], b[1])
        c1 == ll[1] + hl[2] + lh[2]
        c2 == (c1 \div Half) + hl[1] + lh[1] + hh[2]
    IN  <<(c2 \div Half) + hh[1], c2 % Half, c1 % Half, ll[2]>>

\* comparison of two 64-bit values given as limbs
Lt64(p, q) ==
    \E i \in 1 .. 4 : p[i] < q[i] /\ \A j \in 1 .. i - 1 : p[j] = q[j]

BytesPerPixel == 4

\* n pixels of BytesPerPixel bytes do not overflow a 64-bit usize
FitsUsize(p) == p[1] < Half \div BytesPerPixel

(***************************************************************************)
(* Geometry and cropping: Capture::to_img.                                 *)
(*   frame  = [w, h]           the raw frame's size                        *)
(*   win    = [ok, x, y, w, h] get_window_xywh_exclude_shadow(hwnd)        *)
(*   client = [ok, x, y, w, h] get_client_xywh(hwnd)                       *)
(*   border = <<left, top, right, bottom>>                                 *)
(*   checked: the build has overflow checks (an overflowing +/- panics);   *)
(*            otherwise the arithmetic wraps                               *)
(*   gpu_ok : the backend's buffer operations succeed for this frame       *)
(***************************************************************************)
NoCrop == <<WZero, WZero, WZero, WZero>>

Fail(e) == [kind |-> "Err", err |-> e, w |-> WZero, h |-> WZero, crop |-> NoCrop]

Panicked == [kind |-> "Panic", err |-> "overflow", w |-> WZero, h |-> WZero, crop |-> NoCrop]

\* Frame::buffer_crop(sx, sy, ex, ey) followed by as_raw_nopadding_buffer:
\* the size <<w, h>> of the tightly packed buffer, or <<>> when the call fails.
\* An empty or inverted rectangle is refused; for a rectangle that is not
\* inside the frame the backend's answer is not fixed and gpu_ok decides it.
buffer_crop(frame, sx, sy, ex, ey, gpu_ok) ==
    IF ~ULt(sx, ex) \/ ~ULt(sy, ey) THEN <<>>
    ELSE IF ~gpu_ok THEN <<>>
    ELSE IF ~FitsUsize(Mul32(WSub(ex, sx), WSub(ey, sy))) THEN <<>>
    ELSE <<WSub(ex, sx), WSub(ey, sy)>>

\* RgbaImage::from_raw(width, height, buffer): Some iff the buffer holds at
\* least width * height pixels; the image then has the size asked for.
from_raw(width, height, buf) ==
    LET need == Mul32(width, height)
        have == Mul32(buf[1], buf[2])
    IN  FitsUsize(need) /\ ~Lt64(have, need)

SizeMismatchBoth(win, frame) == win.w /= frame.w /\ win.h /= frame.h

\* line 46: the frame is not of the window's size
SizeMismatch(win, frame) == win.w /= frame.w \/ win.h /= frame.h

\* lines 53-56: the client rect is not inside the window rect
ClientOutside(win, client) ==
    \/ ILt(client.x, win.x)
    \/ ILt(client.y, win.y)
    \/ ILt(WAdd(win.x, win.w), WAdd(client.x, client.w))
    \/ ILt(WAdd(win.y, win.h), WAdd(client.y, client.h))

\* lines 53-56 under overflow checks: an evaluated i32 sum overflows
ClientOutsidePanics(win, client) ==
    /\ ~ILt(client.x, win.x)
    /\ ~ILt(client.y, win.y)
    /\ \/ IAddOvf(client.x, client.w)
       \/ IAddOvf(win.x, win.w)
       \/ /\ ~ILt(WAdd(win.x, win.w), WAdd(client.x, client.w))
          /\ (IAddOvf(client.y, client.h) \/ IAddOvf(win.y, win.h))

\* lines 64-65: the border does not fit in the client rect
BorderTooLarge(client, border) ==
    \/ ULt(client.w, WAdd(border[1], border[3]))
    \/ ULt(client.h, WAdd(border[2], border[4]))

\* lines 64-65 under overflow checks: an evaluated u32 sum overflows
BorderTooLargePanics(client, border) ==
    \/ UAddOvf(border[1], border[3])
    \/ /\ ~ULt(client.w, WAdd(border[1], border[3]))
       /\ UAddOvf(border[2], border[4])

\* lines 60-63
client_xy_in_window(win, client) ==
    <<WSub(client.x, win.x), WSub(client.y, win.y)>>

\* lines 71-74: the arguments of buffer_crop
CropRect(xy, client, border) ==
    << WAdd(xy[1], border[1]),
       WAdd(xy[2], border[2]),
       WSub(WAdd(xy[1], client.w), border[3]),
       WSub(WAdd(xy[2], client.h), border[4]) >>

\* lines 60-63 and 71-74 under overflow checks
CropPanics(win, client, border) ==
    LET xy == client_xy_in_window(win, client)
    IN  \/ ISubOvf(client.x, win.x)
        \/ ISubOvf(client.y, win.y)
        \/ UAddOvf(xy[1], border[1])
        \/ UAddOvf(xy[2], border[2])
        \/ UAddOvf(xy[1], client.w)
        \/ USubOvf(WAdd(xy[1], client.w), border[3])
        \/ UAddOvf(xy[2], client.h)
        \/ USubOvf(WAdd(xy[2], client.h), border[4])

to_img(frame, win, client, border, checked, gpu_ok) ==
    IF ~win.ok THEN Fail("GeometryQuery")
    ELSE IF SizeMismatch(win, frame) THEN Fail("FrameSizeMismatch")
    ELSE IF ~client.ok THEN Fail("GeometryQuery")
    ELSE IF client.w = WZero \/ client.h = WZero THEN Fail("ZeroClientArea")
    ELSE IF checked /\ ClientOutsidePanics(win, client) THEN Panicked
    ELSE IF ClientOutside(win, client) THEN Fail("ClientOutsideWindow")
    ELSE IF checked /\ ISubOvf(client.x, win.x) THEN Panicked
    ELSE IF checked /\ ISubOvf(client.y, win.y) THEN Panicked
    ELSE IF checked /\ BorderTooLargePanics(client, border) THEN Panicked
    ELSE IF BorderTooLarge(client, border) THEN Fail("BorderExceedsClient")
    ELSE IF checked /\ CropPanics(win, client, border) THEN Panicked
    ELSE
        LET c   == CropRect(client_xy_in_window(win, client), client, border)
            buf == buffer_crop(frame, c[1], c[2], c[3], c[4], gpu_ok)
        IN  IF buf = <<>> THEN Fail("BufferCrop")
            ELSE IF ~from_raw(client.w, client.h, buf) THEN Fail("BufferConstruction")
            ELSE [kind |-> "Ok", err |-> "none", w |-> client.w, h |-> client.h, crop |-> c]

(***************************************************************************)
(* Bounds of the model and the program's constants.                        *)
(***************************************************************************)
MaxStarts == 2          \* background loops spawned in one behaviour

MaxFrames == 2          \* valid frames (to_img returns Ok) in one behaviour

MaxFails == 2           \* consecutive failed resolutions that are counted

TickMs == 250           \* milliseconds by which one Tick advances the clock

BackoffMs == 500        \* sleep(Duration::from_millis(500))

DefaultDelayMs == 50    \* delay.unwrap_or(Duration::from_millis(50))

\* the configured staleness delays tried
Delays == {0, DefaultDelayMs, TickMs}

\* elapsed times are kept up to this cap, which is above every delay tried
ElapsedCap == 2 * TickMs

Min(a, b) == IF a < b THEN a ELSE b

Max(a, b) == IF a < b THEN b ELSE a

Rect(x0, y0, w0, h0) == [ok |-> TRUE, x |-> W(x0), y |-> W(y0), w |-> W(w0), h |-> W(h0)]

RectErr == [ok |-> FALSE, x |-> WZero, y |-> WZero, w |-> WZero, h |-> WZero]

Border(l, t, r, b) == <<W(l), W(t), W(r), W(b)>>

NoBorder == Border(0, 0, 0, 0)

\* what the window system and the backend present: the size of the frames
\* the backend delivers and the answers of the two geometry queries
MkScene(fw, fh, win, client, gpu) ==
    [fw |-> W(fw), fh |-> W(fh), win |-> win, client |-> client, gpu_ok |-> gpu]

Scenes ==
    { MkScene(800, 600, Rect(0, 0, 800, 600), Rect(0, 30, 800, 570), TRUE),
      MkScene(801, 600, Rect(0, 0, 800, 600), Rect(0, 30, 800, 570), TRUE),
      MkScene(50, 50, Rect(0, 0, 50, 50), Rect(0, 0, 50, 50), TRUE),
      MkScene(50, 50, Rect(0, 0, 50, 50), RectErr, TRUE) }

\* the border insets a session is configured with
Borders == { NoBorder, Border(10, 20, 10, 20) }

Tasks == 1 .. MaxStarts

(***************************************************************************)
(* State.                                                                  *)
(***************************************************************************)
VARIABLES
    border,          \* ClientCapture.border
    delay,           \* ClientCapture.delay, in ms
    paused,          \* the value of the pause watch channel
    stopped,         \* the value of the stop watch channel
    img,             \* the value of the image watch channel
    capture_handle,  \* ClientCapture.capture_handle: 0 is None, else a task
    dropped,         \* the ClientCapture has been dropped
    joiner,          \* the detached task spawned by drop: the task it awaits
    task,            \* the spawned retry loops
    cb,              \* per loop, the frame callback of its Capture adapter
    scene,           \* the window system and backend, as in MkScene
    nframes,         \* frames for which to_img has returned Ok
    last_sent,       \* id of the image of the latest successful send, 0 if none
    ret              \* what the step just taken returned or logged

vars == << border, delay, paused, stopped, img, capture_handle, dropped, joiner,
           task, cb, scene, nframes, last_sent, ret >>

NoImage == [id |-> 0, w |-> WZero, h |-> WZero]

\* watch::channel(None)
NoSample == [some |-> FALSE, image |-> NoImage, elapsed |-> 0]

NoFrame == [w |-> WZero, h |-> WZero]

\* A retry loop: pc is where it stands, sleep_left what remains of its sleep,
\* stop_req whether its adapter has called capture_control.stop().  History:
\* last is how its previous attempt ended, fails the failed resolutions in a
\* row, waited the time slept since the previous attempt ended.
NoTask == [pc |-> "none", sleep_left |-> 0, stop_req |-> FALSE, last |-> "none",
           fails |-> 0, waited |-> 0]

\* A frame callback: pc is where it stands, frame the frame it was called with,
\* image what to_img returned.  History: held says that pause has been set
\* ever since the callback began, rejected that to_img has returned Err for a
\* frame of the adapter the callback belongs to.
CbIdle == [pc |-> "idle", frame |-> NoFrame, image |-> NoImage, held |-> FALSE,
           rejected |-> FALSE]

\* the callback has returned Ok(()) to the backend
Returned(c) == [CbIdle EXCEPT !.rejected = c.rejected]

NoRet == [op |-> "none", val |-> "none", image |-> NoImage, frame |-> NoFrame]

\* the result of to_img, as the callback sees (and logs) it
ToImgRet(r, frame) ==
    [op |-> "to_img", val |-> IF r.kind = "Err" THEN r.err ELSE r.kind,
     image |-> [id |-> 0, w |-> r.w, h |-> r.h], frame |-> frame]

\* ClientCapture::new
Init ==
    /\ border \in Borders
    /\ delay \in Delays
    /\ paused = FALSE
    /\ stopped = FALSE
    /\ img = NoSample
    /\ capture_handle = 0
    /\ dropped = FALSE
    /\ joiner = 0
    /\ task = [i \in Tasks |-> NoTask]
    /\ cb = [i \in Tasks |-> CbIdle]
    /\ scene \in Scenes
    /\ nframes = 0
    /\ last_sent = 0
    /\ ret = NoRet

\* JoinHandle::is_finished
is_finished(i) == task[i].pc \in {"done", "panicked"}

Unfinished == { i \in Tasks : task[i].pc \notin {"none", "done", "panicked"} }

Spawned == { i \in Tasks : task[i].pc /= "none" }

is_running_inverted ==
    IF capture_handle /= 0 THEN is_finished(capture_handle) ELSE FALSE

\* ClientCapture::is_running
is_running ==
    IF capture_handle /= 0 THEN ~is_finished(capture_handle) ELSE FALSE

(***************************************************************************)
(* The controller: the public operations of ClientCapture.                 *)
(***************************************************************************)
StartErr == [op |-> "start", val |-> "AlreadyRunning", image |-> NoImage, frame |-> NoFrame]

StartOk == [op |-> "start", val |-> "Ok", image |-> NoImage, frame |-> NoFrame]

\* the task a spawn creates: the loop is about to test stop_rx
FreshTask == [pc |-> "top", sleep_left |-> 0, stop_req |-> FALSE, last |-> "none",
              fails |-> 0, waited |-> 0]

\* pause is seen unset: no callback has had it set ever since it began
Unhold(c) == [i \in Tasks |-> [c[i] EXCEPT !.held = FALSE]]

start_resets_first ==
    /\ ~dropped
    /\ stopped' = FALSE
    /\ paused' = FALSE
    /\ cb' = Unhold(cb)
    /\ IF is_running
       THEN /\ ret' = StartErr
            /\ UNCHANGED << capture_handle, task >>
       ELSE /\ Cardinality(Spawned) < MaxStarts
            /\ LET i == Cardinality(Spawned) + 1
               IN  /\ task' = [task EXCEPT ![i] = FreshTask]
                   /\ capture_handle' = i
            /\ ret' = StartOk
    /\ UNCHANGED << border, delay, img, dropped, joiner, scene, nframes, last_sent >>

start_keeps_pause ==
    /\ ~dropped
    /\ IF is_running
       THEN /\ ret' = StartErr
            /\ UNCHANGED << paused, stopped, capture_handle, task, cb >>
       ELSE /\ Cardinality(Spawned) < MaxStarts
            /\ stopped' = FALSE
            /\ paused' = paused
            /\ LET i == Cardinality(Spawned) + 1
               IN  /\ task' = [task EXCEPT ![i] = FreshTask]
                   /\ capture_handle' = i
            /\ cb' = cb
            /\ ret' = StartOk
    /\ UNCHANGED << border, delay, img, dropped, joiner, scene, nframes, last_sent >>

start_keeps_stop ==
    /\ ~dropped
    /\ IF is_running
       THEN /\ ret' = StartErr
            /\ UNCHANGED << paused, stopped, capture_handle, task, cb >>
       ELSE /\ Cardinality(Spawned) < MaxStarts
            /\ stopped' = stopped
            /\ paused' = FALSE
            /\ LET i == Cardinality(Spawned) + 1
               IN  /\ task' = [task EXCEPT ![i] = FreshTask]
                   /\ capture_handle' = i
            /\ cb' = Unhold(cb)
            /\ ret' = StartOk
    /\ UNCHANGED << border, delay, img, dropped, joiner, scene, nframes, last_sent >>

\* ClientCapture::start
start ==
    /\ ~dropped
    /\ IF is_running
       THEN /\ ret' = StartErr
            /\ UNCHANGED << paused, stopped, capture_handle, task, cb >>
       ELSE /\ Cardinality(Spawned) < MaxStarts
            /\ stopped' = FALSE
            /\ paused' = FALSE
            /\ LET i == Cardinality(Spawned) + 1
               IN  /\ task' = [task EXCEPT ![i] = FreshTask]
                   /\ capture_handle' = i
            /\ cb' = Unhold(cb)
            /\ ret' = StartOk
    /\ UNCHANGED << border, delay, img, dropped, joiner, scene, nframes, last_sent >>

\* what pause, resume and stop return: (), the send having succeeded since the
\* session holds a receiver of each channel
Done(op) == [op |-> op, val |-> "Ok", image |-> NoImage, frame |-> NoFrame]

pause_toggles ==
    /\ ~dropped
    /\ paused' = ~paused
    /\ cb' = IF paused THEN Unhold(cb) ELSE cb
    /\ UNCHANGED << border, delay, stopped, img, capture_handle, dropped, joiner,
                    task, scene, nframes, last_sent >>
    /\ ret' = Done("pause")

\* ClientCapture::pause
pause ==
    /\ ~dropped
    /\ paused' = TRUE
    /\ UNCHANGED << border, delay, stopped, img, capture_handle, dropped, joiner,
                    task, cb, scene, nframes, last_sent >>
    /\ ret' = Done("pause")

\* ClientCapture::resume
resume ==
    /\ ~dropped
    /\ paused' = FALSE
    /\ cb' = Unhold(cb)
    /\ UNCHANGED << border, delay, stopped, img, capture_handle, dropped, joiner,
                    task, scene, nframes, last_sent >>
    /\ ret' = Done("resume")

\* ClientCapture::stop
stop ==
    /\ ~dropped
    /\ stopped' = TRUE
    /\ UNCHANGED << border, delay, paused, img, capture_handle, dropped, joiner,
                    task, cb, scene, nframes, last_sent >>
    /\ ret' = Done("stop")

IsStaleInclusive(elapsed, d) == elapsed >= d

\* time.elapsed() > self.delay
IsStale(elapsed, d) == elapsed > d

\* the value get_img returns for a slot and a delay
GetImgResult(slot, d) ==
    IF slot.some
    THEN IF IsStale(slot.elapsed, d)
         THEN [op |-> "get_img", val |-> "ImageStale", image |-> NoImage, frame |-> NoFrame]
         ELSE [op |-> "get_img", val |-> "Ok", image |-> slot.image, frame |-> NoFrame]
    ELSE [op |-> "get_img", val |-> "NoImageYet", image |-> NoImage, frame |-> NoFrame]

\* ClientCapture::get_img
get_img ==
    /\ ~dropped
    /\ ret' = GetImgResult(img, delay)
    /\ UNCHANGED << border, delay, paused, stopped, img, capture_handle, dropped,
                    joiner, task, cb, scene, nframes, last_sent >>

drop_without_stop ==
    /\ ~dropped
    /\ dropped' = TRUE
    /\ stopped' = stopped
    /\ joiner' = capture_handle
    /\ capture_handle' = 0
    /\ ret' = NoRet
    /\ UNCHANGED << border, delay, paused, img, task, cb, scene, nframes, last_sent >>

\* Drop for ClientCapture: stop(), then the handle goes to a detached joiner
drop ==
    /\ ~dropped
    /\ dropped' = TRUE
    /\ stopped' = TRUE
    /\ joiner' = capture_handle
    /\ capture_handle' = 0
    /\ ret' = NoRet
    /\ UNCHANGED << border, delay, paused, img, task, cb, scene, nframes, last_sent >>

(***************************************************************************)
(* The retry loop spawned by start (lines 193-227).  One step runs from    *)
(* the test of stop_rx to the next await or blocking call.                 *)
(***************************************************************************)
Others == << border, delay, paused, stopped, img, capture_handle, dropped, joiner,
             nframes, last_sent >>

Quiet == ret' = NoRet /\ UNCHANGED scene

\* a loop whose task has ended
Ended(how) == [pc |-> how, sleep_left |-> 0, stop_req |-> FALSE, last |-> "none",
               fails |-> 0, waited |-> 0]

LoopIgnoresStop(i) ==
    /\ task[i].pc = "top"
    /\ stopped
    /\ task' = [task EXCEPT ![i].pc = "capture", ![i].stop_req = FALSE]
    /\ cb' = [cb EXCEPT ![i] = CbIdle]
    /\ Quiet
    /\ UNCHANGED Others

\* lines 195-197: the loop finds stop set and ends
LoopBreak(i) ==
    /\ task[i].pc = "top"
    /\ stopped
    /\ task' = [task EXCEPT ![i] = Ended("done")]
    /\ Quiet
    /\ UNCHANGED << Others, cb >>

BackoffSkipped(t, how) ==
    [t EXCEPT !.pc = "top", !.stop_req = FALSE, !.last = how, !.waited = 0,
              !.fails = IF how = "resolve_failed" THEN Min(t.fails + 1, MaxFails) ELSE 0]

\* the state of a loop that sleeps the backoff after an attempt ended as `how`
Backoff(t, how) ==
    [t EXCEPT !.pc = "sleep", !.sleep_left = BackoffMs, !.stop_req = FALSE,
              !.last = how, !.waited = 0,
              !.fails = IF how = "resolve_failed" THEN Min(t.fails + 1, MaxFails) ELSE 0]

\* the state of a loop that goes back to the top at once
Retry(t, how) ==
    [t EXCEPT !.pc = "top", !.stop_req = FALSE, !.last = how, !.waited = 0, !.fails = 0]

ResolveFailGivesUp(i) ==
    /\ task[i].pc = "top"
    /\ ~stopped
    /\ task' = [task EXCEPT ![i] = IF task[i].fails >= 1 THEN Ended("done")
                                   ELSE Backoff(task[i], "resolve_failed")]
    /\ Quiet
    /\ UNCHANGED << Others, cb >>

\* get_hwnd_ref_cache fails: warn, sleep 500 ms
ResolveFail(i) ==
    /\ task[i].pc = "top"
    /\ ~stopped
    /\ task' = [task EXCEPT ![i] = Backoff(task[i], "resolve_failed")]
    /\ Quiet
    /\ UNCHANGED << Others, cb >>

\* the handle resolves and Capture::start returns Err before any frame
CaptureStartFail(i) ==
    /\ task[i].pc = "top"
    /\ ~stopped
    /\ task' = [task EXCEPT ![i] = Backoff(task[i], "backend_failed")]
    /\ Quiet
    /\ UNCHANGED << Others, cb >>

CaptureStartClears(i) ==
    /\ task[i].pc = "top"
    /\ ~stopped
    /\ task' = [task EXCEPT ![i].pc = "capture", ![i].stop_req = FALSE]
    /\ cb' = [cb EXCEPT ![i] = CbIdle]
    /\ img' = NoSample
    /\ Quiet
    /\ UNCHANGED << border, delay, paused, stopped, capture_handle, dropped, joiner,
                    nframes, last_sent >>

\* the handle resolves and Capture::start runs the adapter (it blocks)
CaptureStart(i) ==
    /\ task[i].pc = "top"
    /\ ~stopped
    /\ task' = [task EXCEPT ![i].pc = "capture", ![i].stop_req = FALSE]
    /\ cb' = [cb EXCEPT ![i] = CbIdle]
    /\ Quiet
    /\ UNCHANGED Others

\* sleep(500 ms) is over
SleepDone(i) ==
    /\ task[i].pc = "sleep"
    /\ task[i].sleep_left = 0
    /\ task' = [task EXCEPT ![i].pc = "top"]
    /\ Quiet
    /\ UNCHANGED << Others, cb >>

(***************************************************************************)
(* The adapter: Capture::on_frame_arrived and on_closed, called by the     *)
(* backend while Capture::start blocks, one callback at a time.            *)
(***************************************************************************)
Capturing(i) == task[i].pc = "capture" /\ cb[i].pc = "idle"

\* lines 99-102: stop is set: capture_control.stop(), return
FrameStop(i) ==
    /\ Capturing(i)
    /\ ~task[i].stop_req
    /\ stopped
    /\ task' = [task EXCEPT ![i].stop_req = TRUE]
    /\ Quiet
    /\ UNCHANGED << Others, cb >>

FrameIgnoresStop(i) ==
    /\ Capturing(i)
    /\ ~task[i].stop_req
    /\ nframes < MaxFrames
    /\ scene' \in Scenes
    /\ cb' = [cb EXCEPT ![i] = [pc |-> "pause", frame |-> [w |-> scene'.fw, h |-> scene'.fh],
                                image |-> NoImage, held |-> paused,
                                rejected |-> cb[i].rejected]]
    /\ ret' = NoRet
    /\ UNCHANGED << Others, task >>

\* line 99: a frame arrives and stop is not set.  The frame has the size the
\* backend captures at; the window system is as it is for this frame.
FrameBegin(i) ==
    /\ Capturing(i)
    /\ ~task[i].stop_req
    /\ ~stopped
    /\ nframes < MaxFrames
    /\ scene' \in Scenes
    /\ cb' = [cb EXCEPT ![i] = [pc |-> "pause", frame |-> [w |-> scene'.fw, h |-> scene'.fh],
                                image |-> NoImage, held |-> paused,
                                rejected |-> cb[i].rejected]]
    /\ ret' = NoRet
    /\ UNCHANGED << Others, task >>

\* lines 105-107: pause is set: return
CbPaused(i) ==
    /\ cb[i].pc = "pause"
    /\ paused
    /\ cb' = [cb EXCEPT ![i] = Returned(cb[i])]
    /\ Quiet
    /\ UNCHANGED << Others, task >>

CbSkipsPauseTest(i) ==
    /\ cb[i].pc = "pause"
    /\ cb' = [cb EXCEPT ![i].pc = "to_img"]
    /\ Quiet
    /\ UNCHANGED << Others, task >>

\* line 105: pause is not set
CbNotPaused(i) ==
    /\ cb[i].pc = "pause"
    /\ ~paused
    /\ cb' = [cb EXCEPT ![i].pc = "to_img"]
    /\ Quiet
    /\ UNCHANGED << Others, task >>

CbToImgPropagates(i) ==
    /\ cb[i].pc = "to_img"
    /\ \E checked \in BOOLEAN :
          LET r == to_img(cb[i].frame, scene.win, scene.client, border, checked, scene.gpu_ok)
          IN  /\ ret' = ToImgRet(r, cb[i].frame)
              /\ nframes' = IF r.kind = "Ok" THEN nframes + 1 ELSE nframes
              /\ CASE r.kind = "Ok" ->
                        /\ cb' = [cb EXCEPT ![i].pc = "send",
                                            ![i].image = [id |-> nframes + 1, w |-> r.w, h |-> r.h]]
                        /\ task' = task
                   [] r.kind = "Err" ->
                        /\ cb' = [cb EXCEPT ![i] = CbIdle]
                        /\ task' = [task EXCEPT ![i] = Backoff(task[i], "backend_failed")]
                   [] r.kind = "Panic" ->
                        /\ cb' = [cb EXCEPT ![i] = CbIdle]
                        /\ task' = [task EXCEPT ![i] = Ended("panicked")]
    /\ UNCHANGED << border, delay, paused, stopped, img, capture_handle, dropped,
                    joiner, scene, last_sent >>

\* line 109: self.to_img(frame); lines 116-119 on Err.  A panic unwinds out of
\* the callback and of Capture::start and ends the task.
CbToImg(i) ==
    /\ cb[i].pc = "to_img"
    /\ \E checked \in BOOLEAN :
          LET r == to_img(cb[i].frame, scene.win, scene.client, border, checked, scene.gpu_ok)
          IN  /\ ret' = ToImgRet(r, cb[i].frame)
              /\ nframes' = IF r.kind = "Ok" THEN nframes + 1 ELSE nframes
              /\ CASE r.kind = "Ok" ->
                        /\ cb' = [cb EXCEPT ![i].pc = "send",
                                            ![i].image = [id |-> nframes + 1, w |-> r.w, h |-> r.h]]
                        /\ task' = task
                   [] r.kind = "Err" ->
                        /\ cb' = [cb EXCEPT ![i] = [Returned(cb[i]) EXCEPT !.rejected = TRUE]]
                        /\ task' = task
                   [] r.kind = "Panic" ->
                        /\ cb' = [cb EXCEPT ![i] = CbIdle]
                        /\ task' = [task EXCEPT ![i] = Ended("panicked")]
    /\ UNCHANGED << border, delay, paused, stopped, img, capture_handle, dropped,
                    joiner, scene, last_sent >>

PublishIfEmpty(slot, image) ==
    IF slot.some THEN slot ELSE [some |-> TRUE, image |-> image, elapsed |-> 0]

\* what img_tx.send(Some((img, Instant::now()))) leaves in the channel
Publish(slot, image) == [some |-> TRUE, image |-> image, elapsed |-> 0]

\* lines 111-114: send fails when the receiver is gone, and is then only logged
CbSend(i) ==
    /\ cb[i].pc = "send"
    /\ cb' = [cb EXCEPT ![i] = Returned(cb[i])]
    /\ IF dropped
       THEN UNCHANGED << img, last_sent >>
       ELSE /\ img' = Publish(img, cb[i].image)
            /\ last_sent' = cb[i].image.id
    /\ Quiet
    /\ UNCHANGED << border, delay, paused, stopped, capture_handle, dropped, joiner,
                    task, nframes >>

\* the backend shuts down as asked and Capture::start returns Ok
BackendStopped(i) ==
    /\ Capturing(i)
    /\ task[i].stop_req
    /\ task' = [task EXCEPT ![i] = Retry(task[i], "stopped")]
    /\ cb' = [cb EXCEPT ![i] = CbIdle]
    /\ Quiet
    /\ UNCHANGED Others

\* the window is gone: on_closed returns Ok and Capture::start returns Ok
BackendClosed(i) ==
    /\ Capturing(i)
    /\ ~task[i].stop_req
    /\ task' = [task EXCEPT ![i] = Retry(task[i], "closed")]
    /\ cb' = [cb EXCEPT ![i] = CbIdle]
    /\ Quiet
    /\ UNCHANGED Others

\* the backend fails while running and Capture::start returns Err
BackendError(i) ==
    /\ Capturing(i)
    /\ task' = [task EXCEPT ![i] = Backoff(task[i], "backend_failed")]
    /\ cb' = [cb EXCEPT ![i] = CbIdle]
    /\ Quiet
    /\ UNCHANGED Others

(***************************************************************************)
(* The environment: time, the window system, the detached joiner.          *)
(***************************************************************************)
\* the clock advances by TickMs
Tick ==
    /\ img' = IF img.some
              THEN [img EXCEPT !.elapsed = Min(img.elapsed + TickMs, ElapsedCap)]
              ELSE img
    /\ task' = [i \in Tasks |->
                 IF task[i].pc = "sleep"
                 THEN [task[i] EXCEPT !.sleep_left = Max(task[i].sleep_left - TickMs, 0),
                                      !.waited = Min(task[i].waited + TickMs, BackoffMs)]
                 ELSE task[i]]
    /\ Quiet
    /\ UNCHANGED << border, delay, paused, stopped, capture_handle, dropped, joiner,
                    cb, nframes, last_sent >>

\* handle.await returns in the joiner spawned by drop
JoinerDone ==
    /\ joiner /= 0
    /\ is_finished(joiner)
    /\ joiner' = 0
    /\ Quiet
    /\ UNCHANGED << border, delay, paused, stopped, img, capture_handle, dropped,
                    task, cb, nframes, last_sent >>

Controller == start \/ pause \/ resume \/ stop \/ get_img \/ drop

Loop(i) ==
    \/ LoopBreak(i) \/ ResolveFail(i) \/ CaptureStartFail(i) \/ CaptureStart(i)
    \/ SleepDone(i)

Backend(i) == FrameStop(i) \/ FrameBegin(i) \/ BackendClosed(i) \/ BackendError(i)

Callback(i) ==
    CbPaused(i) \/ CbNotPaused(i) \/ CbToImg(i) \/ CbSend(i) \/ BackendStopped(i)

Next ==
    \/ Controller
    \/ \E i \in Tasks : Loop(i) \/ Backend(i) \/ Callback(i)
    \/ Tick
    \/ JoinerDone

Spec == Init /\ [][Next]_vars

(***************************************************************************)
(* With fairness: the runtime runs the loop, timers expire, a callback     *)
(* that has begun runs to its end, and the backend keeps delivering        *)
(* frames to a running adapter and shuts down when asked.  Nothing makes   *)
(* the window system resolve the handle or close the window.               *)
(***************************************************************************)
Frame(i) == FrameStop(i) \/ FrameBegin(i)

\* the steps of a loop and of its adapter that do not wait for the window,
\* but for the call of to_img
Run(i) ==
    \/ Loop(i) \/ Frame(i)
    \/ CbPaused(i) \/ CbNotPaused(i) \/ CbSend(i) \/ BackendStopped(i)

\* to_img returns: CbToImg(i) is enabled exactly while the callback stands at
\* to_img, so this is WF_vars(CbToImg(i))
ToImgReturns(i) == []<>(cb[i].pc /= "to_img")

Fairness ==
    /\ WF_vars(Tick)
    /\ \A i \in Tasks : WF_vars(Run(i)) /\ ToImgReturns(i)

\* ClientCapture::new(class, title, None, None): the session with the default
\* border and delay.  Progress depends on neither, the delay being read by
\* get_img alone and the border by to_img alone, nor on what the window system
\* presented before the first frame.
InitLive ==
    /\ Init
    /\ border = NoBorder
    /\ delay = DefaultDelayMs
    /\ scene = MkScene(800, 600, Rect(0, 0, 800, 600), Rect(0, 30, 800, 570), TRUE)

SpecLive == InitLive /\ [][Next]_vars /\ Fairness

(***************************************************************************)
(* to_img on its own: a callback that has passed the stop and pause tests  *)
(* is about to call to_img, for every frame size, geometry and border of   *)
(* the sets below.                                                         *)
(***************************************************************************)
Big == <<Half \div 2, 0>>       \* 2^31

AllOnes == <<Half - 1, Half - 1>>   \* 2^32 - 1

GeomWinX == {W(0), W(5)}

GeomWinW == {W(50), W(800)}

GeomFrameW == {W(50), W(800), W(801)}

GeomClientX == {W(0), W(5)}

GeomClientW == {W(0), W(50), W(800), AllOnes}

GeomLeft == {W(0), W(10), W(30), Big}

GeomRight == {W(0), W(10), W(20), Big}

GeomWinY == {W(0)}

GeomWinH == {W(50), W(600)}

GeomFrameH == {W(50), W(600)}

GeomClientY == {W(0), W(30)}

GeomClientH == {W(0), W(50), W(570)}

GeomTop == {W(0), W(20)}

GeomBottom == {W(0), W(20)}

GeomWins ==
    {RectErr} \cup { [ok |-> TRUE, x |-> x, y |-> y, w |-> w, h |-> h] :
                        x \in GeomWinX, y \in GeomWinY, w \in GeomWinW, h \in GeomWinH }

GeomClients ==
    {RectErr} \cup { [ok |-> TRUE, x |-> x, y |-> y, w |-> w, h |-> h] :
                        x \in GeomClientX, y \in GeomClientY, w \in GeomClientW,
                        h \in GeomClientH }

GeomBorders == GeomLeft \X GeomTop \X GeomRight \X GeomBottom

GeomScenes ==
    { [fw |-> fw, fh |-> fh, win |-> win, client |-> client, gpu_ok |-> gpu] :
        fw \in GeomFrameW, fh \in GeomFrameH, win \in GeomWins, client \in GeomClients,
        gpu \in BOOLEAN }

InitGeom ==
    /\ border \in GeomBorders
    /\ delay = DefaultDelayMs
    /\ paused = FALSE
    /\ stopped = FALSE
    /\ img = NoSample
    /\ capture_handle = 1
    /\ dropped = FALSE
    /\ joiner = 0
    /\ scene \in GeomScenes
    /\ task = [i \in Tasks |-> IF i = 1 THEN [FreshTask EXCEPT !.pc = "capture"] ELSE NoTask]
    /\ cb = [i \in Tasks |->
               IF i = 1 THEN [pc |-> "to_img", frame |-> [w |-> scene.fw, h |-> scene.fh],
                              image |-> NoImage, held |-> FALSE, rejected |-> FALSE]
               ELSE CbIdle]
    /\ nframes = 0
    /\ last_sent = 0
    /\ ret = NoRet

NextGeom == \E i \in Tasks : CbToImg(i) \/ CbSend(i)

SpecGeom == InitGeom /\ [][NextGeom]_vars

\* The adapter on its own: after that first frame the backend delivers further
\* frames, of the sizes and geometries of Scenes, to a session that is neither
\* paused nor stopped.
NextFrames == \E i \in Tasks : FrameBegin(i) \/ CbNotPaused(i) \/ CbToImg(i) \/ CbSend(i)

SpecFrames == InitGeom /\ [][NextFrames]_vars

(***************************************************************************)
(* The claims.                                                             *)
(***************************************************************************)
Adapters == { i \in Tasks : task[i].pc = "capture" }

\* C1: at most one retry loop is unfinished, and so at most one adapter runs,
\* in every reachable state; a loop is spawned only when none is unfinished.
C1_AtMostOneLoop ==
    /\ Cardinality(Unfinished) <= 1
    /\ Cardinality(Adapters) <= 1

\* a second loop runs its adapter after the first loop has finished
C1_Witness == task[1].pc = "done" /\ task[2].pc = "capture"

\* the background loop task exists and has not finished
LoopAlive == capture_handle /= 0 /\ capture_handle \in Unfinished

\* C2: a start() made while the loop task exists and is unfinished returns
\* AlreadyRunning and leaves stopped, paused, the handle, the loops and the
\* delivered sample as they were.
C2_StartWhileRunning ==
    [][ (LoopAlive /\ ret'.op = "start")
          => /\ ret' = StartErr
             /\ UNCHANGED << stopped, paused, capture_handle, task, img >> ]_vars

\* start() was refused after stop() and before the loop has exited
C2_Witness == ret = StartErr /\ stopped /\ LoopAlive

\* C3: get_img returns the image iff a sample is held whose age is at most
\* the delay, ImageStale iff a sample is held whose age exceeds the delay,
\* and NoImageYet iff no sample has ever been published.
C3_Staleness ==
    ret.op = "get_img" =>
        /\ ret.val \in {"Ok", "ImageStale", "NoImageYet"}
        /\ ret.val = "Ok" <=> (img.some /\ img.elapsed <= delay)
        /\ ret.val = "Ok" => ret.image = img.image
        /\ ret.val = "ImageStale" <=> (img.some /\ img.elapsed > delay)
        /\ ret.val = "NoImageYet" <=> last_sent = 0

\* get_img returned the image of a sample exactly as old as a non-zero delay
C3_Witness ==
    /\ ret.op = "get_img"
    /\ ret.val = "Ok"
    /\ delay > 0
    /\ img.elapsed = delay

\* C4: the slot holds the image of the latest send and get_img, when it
\* returns an image, returns that one, never an earlier one.
C4_LatestWins ==
    /\ img.some => img.image.id = last_sent
    /\ (ret.op = "get_img" /\ ret.val = "Ok") => ret.image.id = last_sent

\* get_img returned the image of the last of MaxFrames published frames
C4_Witness ==
    /\ ret.op = "get_img"
    /\ ret.val = "Ok"
    /\ ret.image.id = MaxFrames

C6_StopEndsLoop ==
    /\ \A i \in Tasks : (stopped /\ i \in Unfinished) ~> is_finished(i)
    /\ [][ \A i \in Tasks :
             (~task[i].stop_req /\ task'[i].stop_req)
                => (stopped /\ img' = img /\ last_sent' = last_sent) ]_vars

\* a paused adapter has asked the backend to shut down
C6_Witness == paused /\ stopped /\ \E i \in Tasks : task[i].stop_req

\* a loop leaves the top of the loop for a resolution attempt
Attempts(i) == task[i].pc = "top" /\ task'[i].pc \in {"sleep", "capture"}

\* C7: a failed resolution leaves the loop unfinished and asleep for the
\* backoff; the next attempt is made only after 500 ms of sleep; a loop
\* leaves its sleep only for the top of the loop; and the adapter started
\* after the failures publishes its valid frames.
C7_RetryAfterBackoff ==
    /\ [](\A i \in Tasks :
            task[i].last = "resolve_failed" => task[i].pc \in {"sleep", "top", "capture"})
    /\ [][ \A i \in Tasks :
             /\ (Attempts(i) /\ task[i].last = "resolve_failed")
                   => task[i].waited >= BackoffMs
             /\ (Attempts(i) /\ task'[i].last = "resolve_failed" /\ task'[i].pc = "sleep")
                   => task'[i].sleep_left = BackoffMs
             /\ (task[i].pc = "sleep" /\ task'[i].pc /= "sleep")
                   => (task'[i].pc = "top" /\ task[i].sleep_left = 0)
             /\ (cb[i].pc = "send" /\ cb'[i].pc /= "send" /\ ~dropped)
                   => (img' = [some |-> TRUE, image |-> cb[i].image, elapsed |-> 0]) ]_vars

\* after MaxFails failed resolutions in a row the handle resolved and the
\* adapter then started has published a frame
C7_Witness ==
    \E i \in Tasks :
        /\ task[i].pc = "capture"
        /\ task[i].fails = MaxFails
        /\ task[i].last = "resolve_failed"
        /\ i \in Unfinished
        /\ img.some
        /\ img.elapsed = 0

\* the sum a + b, taken in the integers, is at least c
SumGe(a, b, c) == UAddOvf(a, b) \/ ULe(c, WAdd(a, b))

\* the frame of ret passes steps 1 to 3 of the validation: both geometry
\* queries answer, the frame has the window's size, the client rect is not
\* empty and lies inside the window rect (no sum leaving the 32-bit range)
PassesGeometry ==
    /\ scene.win.ok
    /\ scene.client.ok
    /\ scene.win.w = ret.frame.w
    /\ scene.win.h = ret.frame.h
    /\ scene.client.w /= WZero
    /\ scene.client.h /= WZero
    /\ ~ClientOutsidePanics(scene.win, scene.client)
    /\ ~ClientOutside(scene.win, scene.client)

\* the frame of ret passes every step of the validation
PassesValidation ==
    /\ PassesGeometry
    /\ ~SumGe(border[1], border[3], scene.client.w)
    /\ ~SumGe(border[2], border[4], scene.client.h)
    /\ ~CropPanics(scene.win, scene.client, border)

\* C8: for a frame that passes validation (and whose buffer the backend
\* hands out) to_img returns an image of the client size less the border.
C8_CroppedSize ==
    (ret.op = "to_img" /\ PassesValidation /\ scene.gpu_ok) =>
        /\ ret.val = "Ok"
        /\ ret.image.w = WSub(scene.client.w, WAdd(border[1], border[3]))
        /\ ret.image.h = WSub(scene.client.h, WAdd(border[2], border[4]))

\* C9: a frame that passes the earlier steps and whose border sums reach the
\* client width or height is rejected as border-exceeds-client.
C9_BorderExceeds ==
    ( /\ ret.op = "to_img"
      /\ PassesGeometry
      /\ \/ SumGe(border[1], border[3], scene.client.w)
         \/ SumGe(border[2], border[4], scene.client.h) )
    => ret.val = "BorderExceedsClient"

\* C10: a frame whose size differs from the window rect's is rejected as a
\* size mismatch whatever the client query would answer and whatever the
\* border, and nothing is sent for it.
C10_SizeMismatch ==
    ( /\ ret.op = "to_img"
      /\ scene.win.ok
      /\ (scene.win.w /= ret.frame.w \/ scene.win.h /= ret.frame.h) )
    => /\ ret.val = "FrameSizeMismatch"
       /\ \A i \in Tasks : cb[i].pc = "idle"
       /\ ~img.some

\* an 801 x 600 frame of an 800 x 600 window was rejected as a size mismatch
\* although the client query would have failed
C10_Witness ==
    /\ ret.op = "to_img"
    /\ ret.val = "FrameSizeMismatch"
    /\ ret.frame = [w |-> W(801), h |-> W(600)]
    /\ scene.win.w = W(800)
    /\ scene.win.h = W(600)
    /\ ~scene.client.ok

\* C11: pause() and resume() return without error in any order; after either
\* the pause channel holds the value of that call, between two such calls the
\* value changes only by the reset of a successful start(), and the pause test
\* of a frame callback decides by the value the channel then holds.
C11_PauseResume ==
    /\ [](ret.op \in {"pause", "resume"} =>
            (ret.val = "Ok" /\ paused = (ret.op = "pause")))
    /\ [][ /\ paused' /= paused => (ret'.op \in {"pause", "resume"} \/ ret' = StartOk)
           /\ \A i \in Tasks :
                (cb[i].pc = "pause" /\ cb'[i].pc /= "pause")
                   => (cb'[i].pc = IF paused THEN "idle" ELSE "to_img") ]_vars

\* pause() has just been called while a frame callback that began unpaused
\* stands before its pause test, after an earlier publication
C11_Witness ==
    /\ ret.op = "pause"
    /\ last_sent > 0
    /\ \E i \in Tasks : cb[i].pc = "pause" /\ ~cb[i].held

\* C12: stop() on a session that is not running returns without error and
\* changes nothing but the stop channel; while no loop is unfinished no loop
\* or callback takes a step, so the channel is not read; a following start()
\* succeeds, overwrites the channel with false and spawns a fresh loop, and
\* get_img() and is_running() do not depend on the channel.
C12_StopWhenIdle ==
    /\ [](ret.op = "stop" => (ret.val = "Ok" /\ stopped))
    /\ [][ /\ (ret'.op = "stop" /\ ~is_running)
                => UNCHANGED << border, delay, paused, img, capture_handle, dropped,
                                joiner, task, cb, nframes, last_sent >>
           /\ (Unfinished = {} /\ task' /= task) => ret' = StartOk
           /\ Unfinished = {} => (cb' = cb /\ img.some' = img.some
                                  /\ img.image' = img.image)
           /\ (~is_running /\ ret'.op = "start")
                => /\ ret' = StartOk
                   /\ ~stopped'
                   /\ ~paused'
                   /\ capture_handle' \in Unfinished'
                   /\ task'[capture_handle'] = FreshTask
           /\ ret'.op = "get_img" => ret' = GetImgResult(img, delay) ]_vars

\* stop() has just been called on a session whose loop has finished, after a
\* frame was published
C12_Witness ==
    /\ ret.op = "stop"
    /\ capture_handle /= 0
    /\ ~is_running
    /\ img.some

\* C13: the drop of a session sets stop and passes the handle to the detached
\* joiner in one step that does not wait for the loop (the loops are as they
\* were); from then on stop stays set, every unfinished loop finishes, no
\* send stores a sample and no reader is handed one.
C13_Disposal ==
    /\ \A i \in Tasks : (dropped /\ i \in Unfinished) ~> is_finished(i)
    /\ [](dropped => (stopped /\ capture_handle = 0))
    /\ [][ /\ (~dropped /\ dropped')
                => /\ joiner' = capture_handle
                   /\ UNCHANGED << task, cb, img, paused >>
           /\ dropped
                => /\ last_sent' = last_sent
                   /\ img'.some = img.some
                   /\ img'.image = img.image
                   /\ ret'.op \notin {"get_img", "start", "pause", "resume", "stop"} ]_vars

\* the session was dropped while its loop's callback was about to send an
\* image, and the joiner awaits that loop
C13_Witness ==
    /\ dropped
    /\ joiner /= 0
    /\ joiner \in Unfinished
    /\ cb[joiner].pc = "send"

\* C14: a loop that stands at the top of the loop, about to resolve the handle
\* again after its adapter ended without a stop request (the backend failed,
\* or closed), has slept the whole backoff since the adapter ended.
C14_BackoffAfterAdapter ==
    \A i \in Tasks :
        (task[i].pc = "top" /\ ~stopped /\ task[i].last \in {"backend_failed", "closed"})
            => task[i].waited >= BackoffMs

C16_StopSticks ==
    [][ /\ (stopped /\ Unfinished /= {}) => stopped'
        /\ \A i \in Tasks :
              /\ (cb[i].pc = "idle" /\ cb'[i].pc /= "idle") => ~stopped
              /\ (~task[i].stop_req /\ task'[i].stop_req)
                    => (stopped /\ cb'[i].pc = "idle" /\ img' = img
                          /\ last_sent' = last_sent) ]_vars

\* start() was refused after the adapter's callback had found stop set; stop
\* is still set and the session is not paused
C16_Witness ==
    /\ ret = StartErr
    /\ stopped
    /\ ~paused
    /\ img.some
    /\ \E i \in Tasks : task[i].stop_req /\ i \in Unfinished

\* the slot holds the same sample (or none) after the step as before it
SlotKept == img'.some = img.some /\ img'.image = img.image

\* C17: the slot changes only in the send of a callback, which then stores
\* that callback's image; a callback reaches its send only by finding stop
\* unset, then pause unset, then to_img returning Ok; a slot that holds a
\* sample keeps holding one; and the controller's calls and the steps of the
\* loop (failures, closures, re-acquisition of the handle) keep the slot.
C17_SlotWriters ==
    [][ /\ ~SlotKept
             => \E i \in Tasks : /\ cb[i].pc = "send"
                                 /\ cb'[i].pc = "idle"
                                 /\ img' = [some |-> TRUE, image |-> cb[i].image, elapsed |-> 0]
        /\ img.some => img'.some
        /\ \A i \in Tasks :
              /\ (cb[i].pc = "idle" /\ cb'[i].pc /= "idle") => (~stopped /\ cb'[i].pc = "pause")
              /\ (cb[i].pc = "pause" /\ cb'[i].pc /= "pause")
                    => (cb'[i].pc = IF paused THEN "idle" ELSE "to_img")
              /\ (cb[i].pc /= "send" /\ cb'[i].pc = "send")
                    => (cb[i].pc = "to_img" /\ ret'.op = "to_img" /\ ret'.val = "Ok")
              /\ task'[i].pc /= task[i].pc => SlotKept
        /\ ret'.op \in {"start", "stop", "pause", "resume", "get_img"} => img' = img ]_vars

\* the sample published by an adapter that was closed is still held, aged,
\* while the loop runs the adapter it started after resolving the handle again
C17_Witness ==
    /\ img.some
    /\ img.elapsed > 0
    /\ \E i \in Tasks : task[i].pc = "capture" /\ task[i].last = "closed"

\* the failures to_img returns
FrameFailures ==
    { "GeometryQuery", "FrameSizeMismatch", "ZeroClientArea", "ClientOutsideWindow",
      "BorderExceedsClient", "BufferCrop", "BufferConstruction" }

\* C18: when to_img returns a failure the callback sends nothing and returns
\* to the backend with the adapter still running and not asked to stop, and
\* an adapter that has had a frame rejected publishes the image of a later
\* frame for which to_img returns Ok.
C18_FrameFailure ==
    [][ \A i \in Tasks :
          /\ (cb[i].pc = "to_img" /\ ret'.op = "to_img" /\ ret'.val \in FrameFailures)
                => /\ img' = img
                   /\ last_sent' = last_sent
                   /\ cb'[i].pc = "idle"
                   /\ cb'[i].rejected
                   /\ task'[i] = task[i]
                   /\ task[i].pc = "capture"
                   /\ ~task[i].stop_req
          /\ (cb[i].rejected /\ cb[i].pc = "to_img" /\ ret'.op = "to_img" /\ ret'.val = "Ok")
                => cb'[i].pc = "send"
          /\ (cb[i].rejected /\ cb[i].pc = "send" /\ cb'[i].pc /= "send" /\ ~dropped)
                => (img' = [some |-> TRUE, image |-> cb[i].image, elapsed |-> 0]) ]_vars

\* an adapter one of whose frames was rejected has published a later frame
\* and is still running
C18_Witness ==
    \E i \in Tasks :
        /\ cb[i].rejected
        /\ cb[i].pc = "idle"
        /\ task[i].pc = "capture"
        /\ img.some
        /\ img.elapsed = 0
        /\ last_sent = nframes
        /\ ret = NoRet

\* the loops spawned by a start() that followed the end of an earlier loop
Restarted == { i \in Tasks : i > 1 /\ task[i].pc /= "none" }

\* C19: a successful start() leaves stop and pause unset, whatever they held,
\* and a fresh loop as the session's task; start() succeeds whenever no loop
\* is unfinished; and the callbacks of a restarted loop reach to_img by
\* finding stop and pause unset and publish the images to_img returns.
C19_Restart ==
    /\ [](ret = StartOk =>
            (~stopped /\ ~paused /\ capture_handle /= 0
               /\ task[capture_handle] = FreshTask))
    /\ [][ /\ (ret'.op = "start" /\ ~is_running) => ret' = StartOk
           /\ \A i \in Restarted :
                /\ (cb[i].pc = "idle" /\ cb'[i].pc /= "idle") => ~stopped
                /\ (cb[i].pc = "pause" /\ cb'[i].pc /= "pause" /\ ~paused)
                      => cb'[i].pc = "to_img"
                /\ (cb[i].pc = "to_img" /\ ret'.op = "to_img" /\ ret'.val = "Ok")
                      => cb'[i].pc = "send"
                /\ (cb[i].pc = "send" /\ cb'[i].pc /= "send" /\ ~dropped)
                      => (img' = [some |-> TRUE, image |-> cb[i].image, elapsed |-> 0]
                            /\ last_sent' = cb[i].image.id) ]_vars

\* the first loop has finished after a stop and the callback of the loop
\* started afterwards has an image to send
C19_Witness ==
    /\ task[1].pc = "done"
    /\ capture_handle = 2
    /\ cb[2].pc = "send"
    /\ ~stopped
    /\ ~paused
    /\ ~dropped

\* the rectangle handed to buffer_crop for the frame of ret
CropOfRet == CropRect(client_xy_in_window(scene.win, scene.client), scene.client, border)

\* C20: when to_img has passed every check before the crop (it returned an
\* image, or failed only in buffer_crop or from_raw), the rectangle handed to
\* buffer_crop has left <= right <= frame width and top <= bottom <= frame
\* height, the arithmetic being that of the code, wrapping at 32 bits.
C20_CropInsideFrame ==
    (ret.op = "to_img" /\ ret.val \in {"Ok", "BufferCrop", "BufferConstruction"}) =>
        /\ ULe(CropOfRet[1], CropOfRet[3])
        /\ ULe(CropOfRet[3], ret.frame.w)
        /\ ULe(CropOfRet[2], CropOfRet[4])
        /\ ULe(CropOfRet[4], ret.frame.h)

====
